---------------------------- MODULE Spec2Model ----------------------------
(***************************************************************************)
(* Relay trigger scheduling engine of the ShopAlarm cloud service.         *)
(*                                                                         *)
(* The model follows src/unnamed/part_000: the shared alarmSettings        *)
(* object, the evaluation calculateAndBroadcastRelayStates(), the          *)
(* self-arming 100 ms interval and the four command handlers (order        *)
(* webhook, dashboard settings, test-relay, deactivate-alarm).             *)
(*                                                                         *)
(* Time is in milliseconds.  Date.now() is the variable now; it only       *)
(* moves in the action AdvanceTime.  Every handler runs to completion      *)
(* (single-threaded event loop), so each handler is one action.            *)
(***************************************************************************)
EXTENDS Integers, FiniteSets, Sequences, TLC

---------------------------------------------------------------------------
(* Bounds of the model *)

\* last instant the clock may reach
MaxTime == 600

\* last instant the clock may reach while the request validation is probed
MaxProbeTime == 200

\* number of commands (accepted or rejected) issued in one behaviour
MaxCommands == 3

\* amounts by which the clock advances between two handler runs
Steps == {100}

---------------------------------------------------------------------------
(* Program constants *)

\* relay ids '1'..'4'
NumRelays == 4

RelayIds == 1..NumRelays

\* testRelay.id === null
NoRelay == 0

\* fixed duration of a test override
TestOnTimeMs == 500

\* validation ranges of the settings handler
MinOnTimeMs == 100
MaxOnTimeMs == 600000
MinDelayMs == 0
MaxDelayMs == 600000
MinPulseMs == 0
MaxPulseMs == 5000

\* activeTrigger === null
NoTrigger == [source |-> "null"]

\* testRelay after it has been cleared
ClearedTest == [id |-> NoRelay, onTimeMs |-> 0, pulseMs |-> 0, timestamp |-> 0]

\* { '1': false, '2': false, '3': false, '4': false }
AllOff == [r \in RelayIds |-> FALSE]

Relay(onTimeMs, delayMs, pulseMs, enabled) ==
    [onTimeMs |-> onTimeMs, delayMs |-> delayMs, pulseMs |-> pulseMs, enabled |-> enabled]

\* the relay configuration the service starts with
DefaultRelays ==
    (1 :> Relay(5000, 0, 0, TRUE)) @@ (2 :> Relay(5000, 1000, 0, TRUE)) @@
    (3 :> Relay(5000, 2000, 0, TRUE)) @@ (4 :> Relay(5000, 3000, 0, TRUE))

---------------------------------------------------------------------------
(* Request bodies the dashboard posts to /api/dashboard/settings *)

\* short windows: a delayed solid relay, a fast pulse, a disabled relay that
\* would outlive the others, a delayed slow pulse
CfgMixed ==
    (1 :> Relay(100, 100, 0, TRUE)) @@ (2 :> Relay(300, 0, 100, TRUE)) @@
    (3 :> Relay(600, 0, 0, FALSE)) @@ (4 :> Relay(200, 100, 200, TRUE))

\* every relay disabled
CfgAllDisabled ==
    [r \in RelayIds |-> Relay(100, 0, 0, FALSE)]

\* onTimeMs of relay 1 below the minimum
CfgBadRange ==
    [CfgMixed EXCEPT ![1] = Relay(50, 0, 0, TRUE)]

\* only three relays
CfgBadShape ==
    [r \in 1..3 |-> Relay(100, 0, 0, TRUE)]

\* four keys, one of them not a relay id
CfgBadKeys ==
    (1 :> Relay(100, 100, 0, TRUE)) @@ (2 :> Relay(300, 0, 100, TRUE)) @@
    (3 :> Relay(600, 0, 0, FALSE)) @@ (5 :> Relay(200, 0, 0, TRUE))

\* CfgMixed with one relay replaced
CfgWith(id, relay) ==
    [CfgMixed EXCEPT ![id] = relay]

\* one field of one relay just outside its range, the rest of the body valid
CfgOutOfRange ==
    {CfgWith(2, Relay(MaxOnTimeMs + 1, 0, 0, TRUE)),
     CfgWith(3, Relay(100, MinDelayMs - 1, 0, TRUE)),
     CfgWith(3, Relay(100, MaxDelayMs + 1, 0, TRUE)),
     CfgWith(4, Relay(100, 0, MinPulseMs - 1, TRUE)),
     CfgWith(4, Relay(100, 0, MaxPulseMs + 1, TRUE))}

\* relay 2 without a boolean enabled (the field is absent: typeof undefined)
CfgBadEnabled ==
    CfgWith(2, [onTimeMs |-> 100, delayMs |-> 0, pulseMs |-> 0])

RequestBodies == {CfgMixed, CfgAllDisabled, CfgBadRange}

\* req.body of the settings handler
Requests ==
    [alarmEnabled : BOOLEAN, relays : RequestBodies]

\* bodies that probe each check of the settings handler
ProbeBodies ==
    {CfgMixed, CfgBadRange, CfgBadShape, CfgBadKeys, CfgBadEnabled} \cup CfgOutOfRange

\* req.body of the settings handler; the last one has no boolean alarmEnabled
ProbeRequests ==
    [alarmEnabled : BOOLEAN, relays : ProbeBodies] \cup {[relays |-> CfgMixed]}

\* req.body with "relays": null, and req.body without relays
NullRequests ==
    {[alarmEnabled |-> TRUE, relaysNull |-> TRUE], [alarmEnabled |-> TRUE]}

---------------------------------------------------------------------------
VARIABLES
    alarmEnabled,        \* alarmSettings.alarmEnabled
    relays,              \* alarmSettings.relays, the live configuration
    activeTrigger,       \* alarmSettings.activeTrigger
    testRelay,           \* alarmSettings.testRelay
    currentRelayStates,  \* alarmSettings.currentRelayStates, as last broadcast
    triggerActive,       \* alarmSettings.triggerActive, as last broadcast
    intervalId,          \* TRUE iff intervalId holds a timer handle
    timers,              \* number of armed setInterval timers
    now,                 \* Date.now()
    resp,                \* the response of the last command
    cmds,                \* commands issued so far
    ev,                  \* record of the last run of the evaluation
    connectedClients,    \* the set connectedClients
    sockets,             \* every WebSocket the server was offered, by id
    diskOk               \* whether writing the settings file succeeds

vars == <<alarmEnabled, relays, activeTrigger, testRelay, currentRelayStates,
          triggerActive, intervalId, timers, now, resp, cmds, ev,
          connectedClients, sockets, diskOk>>

---------------------------------------------------------------------------
(* The WebSocket clients *)

SocketIds == {"a", "b"}

\* nothing was ever sent on the socket
NoPayload == [empty |-> TRUE]

\* a socket the server has not been offered yet.  readyState is the ws
\* readyState (NONE before the upgrade, REJECTED after a refused one), alive
\* tells whether the peer still receives what is written, credential whether
\* the upgrade request carried the device secret (esp32) or belonged to a
\* logged-in session (dashboard), got counts the payloads the last handler
\* run sent to it and last is the last payload the peer received.
FreshSocket ==
    [readyState |-> "NONE", alive |-> TRUE, path |-> "", credential |-> FALSE,
     got |-> 0, last |-> NoPayload]

\* dataToSend of broadcastSettings and of the connection handler
Payload(alarm, active, states, test) ==
    [alarmEnabled |-> alarm, triggerActive |-> active, relays |-> states, testRelay |-> test]

\* a handler run that sends no payload
NothingSent(socks) ==
    [id \in DOMAIN socks |-> [socks[id] EXCEPT !.got = 0]]

\* variant: a client that cannot be written to ends the loop for all
BroadcastSettingsAborting(socks, members, data) ==
    IF \E id \in members : socks[id].readyState # "OPEN" \/ ~socks[id].alive
    THEN NothingSent(socks)
    ELSE [id \in DOMAIN socks |->
            IF id \in members
            THEN [socks[id] EXCEPT !.got = 1, !.last = data]
            ELSE [socks[id] EXCEPT !.got = 0]]

\* broadcastSettings(): the payload is written to every client of the set
\* whose readyState is OPEN; a peer that is no longer alive does not receive it
BroadcastSettings(socks, members, data) ==
    [id \in DOMAIN socks |->
        IF id \in members /\ socks[id].readyState = "OPEN" /\ socks[id].alive
        THEN [socks[id] EXCEPT !.got = 1, !.last = data]
        ELSE [socks[id] EXCEPT !.got = 0]]

---------------------------------------------------------------------------
(* The relay timing computation *)

\* variant: the window is closed at its end
InWindowClosed(config, elapsed) ==
    elapsed >= config.delayMs /\ elapsed <= config.delayMs + config.onTimeMs

\* inside the active window [delayMs, delayMs + onTimeMs)
InWindow(config, elapsed) ==
    elapsed >= config.delayMs /\ elapsed < config.delayMs + config.onTimeMs

\* variant: the on-phase is one instant too long
PulseOnInclusive(pulseMs, t) ==
    IF pulseMs > 0 THEN (t % (pulseMs * 2)) <= pulseMs ELSE TRUE

\* square wave of period 2 * pulseMs; solid when pulseMs = 0
PulseOn(pulseMs, t) ==
    IF pulseMs > 0 THEN (t % (pulseMs * 2)) < pulseMs ELSE TRUE

\* variant: the enabled flag of the relay is not consulted
RelayLoopStateAnyRelay(config, elapsed) ==
    IF InWindow(config, elapsed) THEN PulseOn(config.pulseMs, elapsed - config.delayMs)
    ELSE FALSE

\* body of the loop over the snapshot, for one relay
RelayLoopState(config, elapsed) ==
    IF ~config.enabled THEN FALSE
    ELSE IF InWindow(config, elapsed) THEN PulseOn(config.pulseMs, elapsed - config.delayMs)
    ELSE FALSE

\* updatedRelayStates after the loop over the snapshot
MainLoopStates(trig, n) ==
    [r \in RelayIds \cup DOMAIN trig.relayConfig |->
        IF r \in DOMAIN trig.relayConfig
        THEN RelayLoopState(trig.relayConfig[r], n - trig.timestamp)
        ELSE FALSE]

\* variant: a disabled relay is finished only when its time has passed
RelayFinishedByTime(config, timestamp, n) ==
    n >= timestamp + config.delayMs + config.onTimeMs

RelayFinished(config, timestamp, n) ==
    IF ~config.enabled THEN TRUE
    ELSE n >= timestamp + config.delayMs + config.onTimeMs

AllEnabledTriggerRelaysFinished(trig, n) ==
    \A r \in DOMAIN trig.relayConfig : RelayFinished(trig.relayConfig[r], trig.timestamp, n)

\* variant: the main toggle is not consulted
MainBlockUnswitched(alarm, trig, n) ==
    IF trig # NoTrigger
    THEN IF AllEnabledTriggerRelaysFinished(trig, n)
         THEN [states |-> AllOff, active |-> FALSE, trigger |-> NoTrigger]
         ELSE [states |-> MainLoopStates(trig, n), active |-> TRUE, trigger |-> trig]
    ELSE [states |-> AllOff, active |-> FALSE, trigger |-> trig]

\* the block that handles the main active trigger
MainBlock(alarm, trig, n) ==
    IF alarm /\ trig # NoTrigger
    THEN IF AllEnabledTriggerRelaysFinished(trig, n)
         THEN [states |-> AllOff, active |-> FALSE, trigger |-> NoTrigger]
         ELSE [states |-> MainLoopStates(trig, n), active |-> TRUE, trigger |-> trig]
    ELSE [states |-> AllOff, active |-> FALSE, trigger |-> trig]

\* a test override is present
TestPresent(test) ==
    test.id # NoRelay /\ test.onTimeMs > 0

\* variant: the override lasts one instant too long
TestInFlightInclusive(test, n) ==
    n - test.timestamp <= test.onTimeMs

\* the override is still inside its own window
TestInFlight(test, n) ==
    n - test.timestamp < test.onTimeMs

\* variant: an override in flight holds its relay on, whatever its pulseMs
TestBlockSolid(m, test, n) ==
    IF TestPresent(test)
    THEN IF TestInFlight(test, n)
         THEN [states |-> [m.states EXCEPT ![test.id] = TRUE],
               active |-> TRUE, test |-> test, saves |-> 0]
         ELSE [states |-> IF m.trigger = NoTrigger
                          THEN [m.states EXCEPT ![test.id] = FALSE]
                          ELSE m.states,
               active |-> m.active, test |-> ClearedTest, saves |-> 1]
    ELSE [states |-> m.states, active |-> m.active, test |-> test, saves |-> 0]

\* variant: an override in flight switches every other relay off
TestBlockAlone(m, test, n) ==
    IF TestPresent(test)
    THEN IF TestInFlight(test, n)
         THEN [states |-> [r \in DOMAIN m.states |->
                              r = test.id /\ PulseOn(test.pulseMs, n - test.timestamp)],
               active |-> TRUE, test |-> test, saves |-> 0]
         ELSE [states |-> IF m.trigger = NoTrigger
                          THEN [m.states EXCEPT ![test.id] = FALSE]
                          ELSE m.states,
               active |-> m.active, test |-> ClearedTest, saves |-> 1]
    ELSE [states |-> m.states, active |-> m.active, test |-> test, saves |-> 0]

\* variant: the override is merged with the main computation instead of replacing it
TestBlockMerged(m, test, n) ==
    IF TestPresent(test)
    THEN IF TestInFlight(test, n)
         THEN [states |-> [m.states EXCEPT ![test.id] = @ \/ PulseOn(test.pulseMs, n - test.timestamp)],
               active |-> TRUE, test |-> test, saves |-> 0]
         ELSE [states |-> IF m.trigger = NoTrigger
                          THEN [m.states EXCEPT ![test.id] = FALSE]
                          ELSE m.states,
               active |-> m.active, test |-> ClearedTest, saves |-> 1]
    ELSE [states |-> m.states, active |-> m.active, test |-> test, saves |-> 0]

\* variant: an override that ends always switches its relay off
TestBlockFinishOff(m, test, n) ==
    IF TestPresent(test)
    THEN IF TestInFlight(test, n)
         THEN [states |-> [m.states EXCEPT ![test.id] = PulseOn(test.pulseMs, n - test.timestamp)],
               active |-> TRUE, test |-> test, saves |-> 0]
         ELSE [states |-> [m.states EXCEPT ![test.id] = FALSE],
               active |-> m.active, test |-> ClearedTest, saves |-> 1]
    ELSE [states |-> m.states, active |-> m.active, test |-> test, saves |-> 0]

\* variant: an override in flight leaves newTriggerActive to the main block
TestBlockQuiet(m, test, n) ==
    IF TestPresent(test)
    THEN IF TestInFlight(test, n)
         THEN [states |-> [m.states EXCEPT ![test.id] = PulseOn(test.pulseMs, n - test.timestamp)],
               active |-> m.active, test |-> test, saves |-> 0]
         ELSE [states |-> IF m.trigger = NoTrigger
                          THEN [m.states EXCEPT ![test.id] = FALSE]
                          ELSE m.states,
               active |-> m.active, test |-> ClearedTest, saves |-> 1]
    ELSE [states |-> m.states, active |-> m.active, test |-> test, saves |-> 0]

\* the block that handles the test override, layered on the main block's result m
TestBlock(m, test, n) ==
    IF TestPresent(test)
    THEN IF TestInFlight(test, n)
         THEN [states |-> [m.states EXCEPT ![test.id] = PulseOn(test.pulseMs, n - test.timestamp)],
               active |-> TRUE, test |-> test, saves |-> 0]
         ELSE [states |-> IF m.trigger = NoTrigger
                          THEN [m.states EXCEPT ![test.id] = FALSE]
                          ELSE m.states,
               active |-> m.active, test |-> ClearedTest, saves |-> 1]
    ELSE [states |-> m.states, active |-> m.active, test |-> test, saves |-> 0]

\* variant: a change of the relay states alone does not open the gate
BroadcastGateActiveOnly(states, active, test, prevStates, prevActive) ==
    \/ active # prevActive
    \/ TestPresent(test)

\* variant: every run stores and broadcasts
BroadcastGateAlways(states, active, test, prevStates, prevActive) ==
    TRUE

\* the condition under which the evaluation stores and broadcasts
BroadcastGate(states, active, test, prevStates, prevActive) ==
    \/ states # prevStates
    \/ active # prevActive
    \/ TestPresent(test)

\* variant: a write that fails is not caught
SaveSettingsThrowing(ok) ==
    IF ok THEN "returned" ELSE "thrown"

\* saveSettings(): the write is wrapped in try/catch, the error is logged and
\* the function returns whether or not the file was written
SaveSettings(ok) ==
    "returned"

\* variant: every broadcast is accompanied by a save
IdleSaveAlways(trigger, active, test) ==
    TRUE

\* the save inside the gated block
IdleSave(trigger, active, test) ==
    trigger = NoTrigger /\ ~active /\ test.id = NoRelay

\* variant: the interval is left running when the system becomes idle
StopIntervalNever(idle, handle) ==
    FALSE

\* clearInterval: nothing is left to time and a handle is held
StopInterval(idle, handle) ==
    idle /\ handle

\* variant: a new interval is created without looking at the handle
StartIntervalUnguarded(idle, handle) ==
    ~idle

\* setInterval: there is something to time and no handle is held
StartInterval(idle, handle) ==
    ~idle /\ ~handle

\* calculateAndBroadcastRelayStates(), run by handler op on the given
\* alarmEnabled, activeTrigger and testRelay (the handler's own writes included).
\* ev records the run: its inputs (alarm, trig, test, n), the state the handler
\* found (preTrig, preTest), the result of the main block (main), the final
\* updatedRelayStates and newTriggerActive (computed, active), the pair stored
\* before the run (prevStates, prevActive), whether it broadcast and how often
\* it saved, failed how many saves of the run and of its handler did not reach
\* the file, and unsaved whether the last save attempted so far failed.
\* overMainOff tells that the override seen by the run was started
\* while a trigger existed whose main computation for that relay was off.
\* repeat tells that the run is a tick at the instant of the run before it.
CalculateAndBroadcastRelayStates(op, alarm, trig, test) ==
    LET m == MainBlock(alarm, trig, now)
        t == TestBlock(m, test, now)
        \* the save of the override's end leaves the function by an exception
        thrownEarly == SaveSettings(diskOk) = "thrown" /\ t.saves > 0
        gate == /\ ~thrownEarly
                /\ BroadcastGate(t.states, t.active, t.test, currentRelayStates, triggerActive)
        idleSave == gate /\ IdleSave(m.trigger, t.active, t.test)
        thrown == SaveSettings(diskOk) = "thrown" /\ (t.saves > 0 \/ idleSave)
        attempts == t.saves + (IF idleSave THEN 1 ELSE 0)
        \* the settings handler saves once before it calls the evaluation
        allAttempts == attempts + (IF op = "settings" THEN 1 ELSE 0)
        idle == m.trigger = NoTrigger /\ t.test.id = NoRelay
        stop == ~thrown /\ StopInterval(idle, intervalId)
        start == ~thrown /\ StartInterval(idle, intervalId)
    IN  /\ activeTrigger' = m.trigger
        /\ testRelay' = t.test
        /\ currentRelayStates' = IF gate THEN t.states ELSE currentRelayStates
        /\ triggerActive' = IF gate THEN t.active ELSE triggerActive
        /\ intervalId' = IF stop THEN FALSE
                         ELSE IF start THEN TRUE
                         ELSE intervalId
        /\ timers' = IF stop THEN timers - 1
                     ELSE IF start THEN timers + 1
                     ELSE timers
        /\ sockets' = IF gate /\ ~thrown
                      THEN BroadcastSettings(sockets, connectedClients,
                               Payload(alarm, t.active, t.states, t.test))
                      ELSE NothingSent(sockets)
        /\ connectedClients' = connectedClients
        /\ diskOk' = diskOk
        /\ ev' = [repeat |-> (op = "tick" /\ ev.n = now), op |-> op, n |-> now, alarm |-> alarm,
                  preTrig |-> activeTrigger, preTest |-> testRelay,
                  trig |-> trig, test |-> test,
                  overMainOff |-> IF op = "test"
                                  THEN m.trigger # NoTrigger /\ ~m.states[test.id]
                                  ELSE ev.overMainOff /\ TestPresent(test),
                  main |-> m.states, computed |-> t.states, active |-> t.active,
                  prevStates |-> currentRelayStates, prevActive |-> triggerActive,
                  broadcast |-> (gate /\ ~thrown),
                  saves |-> attempts,
                  failed |-> IF diskOk THEN 0 ELSE allAttempts,
                  unsaved |-> IF diskOk /\ ~ev.unsaved THEN FALSE
                              ELSE IF allAttempts > 0 THEN ~diskOk ELSE ev.unsaved]

---------------------------------------------------------------------------
(* Initial state: defaults, after the evaluation run at start-up *)

Init ==
    /\ alarmEnabled = TRUE
    /\ relays = DefaultRelays
    /\ activeTrigger = NoTrigger
    /\ testRelay = ClearedTest
    /\ currentRelayStates = AllOff
    /\ triggerActive = FALSE
    /\ intervalId = FALSE
    /\ timers = 0
    /\ now = 0
    /\ resp = [op |-> "start", status |-> 200, msg |-> "listening"]
    /\ cmds = 0
    /\ connectedClients = {}
    /\ sockets = [id \in SocketIds |-> FreshSocket]
    /\ diskOk = TRUE
    /\ ev = [repeat |-> FALSE, op |-> "start", n |-> 0, alarm |-> TRUE,
             preTrig |-> NoTrigger, preTest |-> ClearedTest,
             trig |-> NoTrigger, test |-> ClearedTest, overMainOff |-> FALSE,
             main |-> AllOff, computed |-> AllOff, active |-> FALSE,
             prevStates |-> AllOff, prevActive |-> FALSE,
             broadcast |-> FALSE, saves |-> 0, failed |-> 0, unsaved |-> FALSE]

---------------------------------------------------------------------------
(* Handlers *)

\* the clock moves; no handler runs
AdvanceTime ==
    /\ \E d \in Steps : now + d <= MaxTime /\ now' = now + d
    /\ UNCHANGED <<alarmEnabled, relays, activeTrigger, testRelay, currentRelayStates,
                   triggerActive, intervalId, timers, resp, cmds, ev,
                   connectedClients, sockets, diskOk>>

\* the clock moves while the request validation is probed
AdvanceProbeTime ==
    /\ \E d \in Steps : now + d <= MaxProbeTime
    /\ AdvanceTime

\* variant: a tick switches the main toggle off
TickDisabling ==
    /\ timers > 0
    /\ CalculateAndBroadcastRelayStates("tick", alarmEnabled, activeTrigger, testRelay)
    /\ alarmEnabled' = FALSE
    /\ UNCHANGED <<relays, now, resp, cmds>>

\* the interval fires
Tick ==
    /\ timers > 0
    /\ CalculateAndBroadcastRelayStates("tick", alarmEnabled, activeTrigger, testRelay)
    /\ UNCHANGED <<alarmEnabled, relays, now, resp, cmds>>

\* variant: the order webhook does not consult the main toggle
OrderAcceptedAlways(alarm) ==
    TRUE

\* the order webhook creates a trigger only while the main toggle is on
OrderAccepted(alarm) ==
    alarm

\* variant: the trigger is stamped with the epoch instead of the clock
NewTriggerUnstamped(n, config) ==
    [source |-> "order", timestamp |-> 0, relayConfig |-> config]

\* the trigger the order webhook installs: started now, deep copy of the live configuration
NewTrigger(n, config) ==
    [source |-> "order", timestamp |-> n, relayConfig |-> config]

\* POST /webhook/order with the right secret
FireTrigger ==
    /\ cmds < MaxCommands
    /\ cmds' = cmds + 1
    /\ IF OrderAccepted(alarmEnabled)
       THEN /\ CalculateAndBroadcastRelayStates("order", alarmEnabled,
                    NewTrigger(now, relays), testRelay)
            /\ resp' = [op |-> "order", status |-> 200, msg |-> "Alarm triggered via API"]
            /\ UNCHANGED <<alarmEnabled, relays, now>>
       ELSE /\ resp' = [op |-> "order", status |-> 200, msg |-> "Main alarm is disabled, trigger ignored"]
            /\ UNCHANGED <<alarmEnabled, relays, activeTrigger, testRelay, currentRelayStates,
                           triggerActive, intervalId, timers, now, ev, connectedClients, diskOk>>
            /\ sockets' = NothingSent(sockets)

\* typeof relay[field] !== 'number' || relay[field] < min || relay[field] > max;
\* a value that is not a number is modelled by the field being absent
FieldOutside(relay, field, min, max) ==
    field \notin DOMAIN relay \/ relay[field] < min \/ relay[field] > max

\* variant: the upper limit of pulseMs is not checked
RelayErrorNoPulseLimit(relay) ==
    IF FieldOutside(relay, "onTimeMs", MinOnTimeMs, MaxOnTimeMs) THEN "Invalid onTimeMs"
    ELSE IF FieldOutside(relay, "delayMs", MinDelayMs, MaxDelayMs) THEN "Invalid delayMs"
    ELSE IF "pulseMs" \notin DOMAIN relay \/ relay.pulseMs < MinPulseMs THEN "Invalid pulseMs"
    ELSE IF "enabled" \notin DOMAIN relay THEN "Invalid enabled status"
    ELSE "ok"

\* the checks of the loop over the body's relays, in their order
RelayError(relay) ==
    IF FieldOutside(relay, "onTimeMs", MinOnTimeMs, MaxOnTimeMs) THEN "Invalid onTimeMs"
    ELSE IF FieldOutside(relay, "delayMs", MinDelayMs, MaxDelayMs) THEN "Invalid delayMs"
    ELSE IF FieldOutside(relay, "pulseMs", MinPulseMs, MaxPulseMs) THEN "Invalid pulseMs"
    ELSE IF "enabled" \notin DOMAIN relay THEN "Invalid enabled status"
    ELSE "ok"

\* per-relay validation of the settings handler
ValidRelay(relay) ==
    RelayError(relay) = "ok"

\* validation of the relays of the body of the settings handler
ValidBody(body) ==
    /\ Cardinality(DOMAIN body) = NumRelays
    /\ \A id \in DOMAIN body : ValidRelay(body[id])

\* the text of the error response of the settings handler, "ok" if it accepts.
\* typeof null is 'object', so Object.keys(null) is reached and throws.
RequestError(req) ==
    IF "alarmEnabled" \notin DOMAIN req THEN "Invalid alarm enabled status"
    ELSE IF "relaysNull" \in DOMAIN req THEN "TypeError"
    ELSE IF "relays" \notin DOMAIN req THEN "Invalid relays configuration"
    ELSE IF Cardinality(DOMAIN req.relays) # NumRelays THEN "Invalid relays configuration"
    ELSE IF \A id \in DOMAIN req.relays : ValidRelay(req.relays[id]) THEN "ok"
    ELSE LET bad == {id \in DOMAIN req.relays : ~ValidRelay(req.relays[id])}
             first == CHOOSE id \in bad : \A other \in bad : id <= other
         IN  RelayError(req.relays[first])

\* what the settings handler stores as the live configuration
StoredRelays(body) == body

\* variant: the snapshot shares the live configuration object
TriggerAfterUpdateAliased(trig, body) ==
    IF trig # NoTrigger THEN [trig EXCEPT !.relayConfig = body] ELSE trig

\* what the settings handler leaves as the active trigger
TriggerAfterUpdate(trig, body) == trig

\* POST /api/dashboard/settings
UpdateConfig(req) ==
    /\ cmds < MaxCommands
    /\ cmds' = cmds + 1
    /\ IF RequestError(req) = "ok"
       THEN /\ alarmEnabled' = req.alarmEnabled
            /\ relays' = StoredRelays(req.relays)
            /\ CalculateAndBroadcastRelayStates("settings", req.alarmEnabled,
                    TriggerAfterUpdate(activeTrigger, req.relays), testRelay)
            /\ resp' = [op |-> "settings", status |-> 200, msg |-> "Settings updated"]
            /\ UNCHANGED now
       ELSE /\ resp' = [op |-> "settings",
                         status |-> IF RequestError(req) = "TypeError" THEN 500 ELSE 400,
                         msg |-> RequestError(req)]
            /\ UNCHANGED <<alarmEnabled, relays, activeTrigger, testRelay, currentRelayStates,
                           triggerActive, intervalId, timers, now, ev, connectedClients, diskOk>>
            /\ sockets' = NothingSent(sockets)

\* the override the test-relay handler installs
NewTest(relayId, config, n) ==
    [id |-> relayId, onTimeMs |-> TestOnTimeMs, pulseMs |-> config.pulseMs, timestamp |-> n]

\* POST /api/dashboard/commands/test-relay/:id
\* A relay id the live configuration lacks makes currentRelayConfig undefined;
\* reading its enabled throws a TypeError, which Express answers with 500.
FireTest(relayId) ==
    /\ cmds < MaxCommands
    /\ cmds' = cmds + 1
    /\ IF relayId \notin RelayIds
       THEN /\ resp' = [op |-> "test", status |-> 400, msg |-> "Invalid relay ID"]
            /\ UNCHANGED <<alarmEnabled, relays, activeTrigger, testRelay, currentRelayStates,
                           triggerActive, intervalId, timers, now, ev, connectedClients, diskOk>>
            /\ sockets' = NothingSent(sockets)
       ELSE IF relayId \notin DOMAIN relays
       THEN /\ resp' = [op |-> "test", status |-> 500, msg |-> "TypeError"]
            /\ UNCHANGED <<alarmEnabled, relays, activeTrigger, testRelay, currentRelayStates,
                           triggerActive, intervalId, timers, now, ev, connectedClients, diskOk>>
            /\ sockets' = NothingSent(sockets)
       ELSE IF ~relays[relayId].enabled
       THEN /\ resp' = [op |-> "test", status |-> 400, msg |-> "Relay is disabled and cannot be tested"]
            /\ UNCHANGED <<alarmEnabled, relays, activeTrigger, testRelay, currentRelayStates,
                           triggerActive, intervalId, timers, now, ev, connectedClients, diskOk>>
            /\ sockets' = NothingSent(sockets)
       ELSE /\ CalculateAndBroadcastRelayStates("test", alarmEnabled, activeTrigger,
                    NewTest(relayId, relays[relayId], now))
            /\ resp' = [op |-> "test", status |-> 200, msg |-> "Test alarm command sent"]
            /\ UNCHANGED <<alarmEnabled, relays, now>>

\* variant: the handler forgets the test override
TestAfterDeactivateKept(test) == test

\* what the deactivate handler leaves as the test override
TestAfterDeactivate(test) == ClearedTest

\* variant: the handler clears and evaluates whatever the state
SomethingActiveAlways(trig, test, active) ==
    TRUE

\* the condition under which the deactivate handler has something to clear
SomethingActive(trig, test, active) ==
    trig # NoTrigger \/ test.id # NoRelay \/ active

\* POST /api/dashboard/commands/deactivate-alarm
Deactivate ==
    /\ cmds < MaxCommands
    /\ cmds' = cmds + 1
    /\ IF SomethingActive(activeTrigger, testRelay, triggerActive)
       THEN /\ CalculateAndBroadcastRelayStates("deactivate", alarmEnabled, NoTrigger,
                    TestAfterDeactivate(testRelay))
            /\ resp' = [op |-> "deactivate", status |-> 200, msg |-> "Active alarm cleared"]
            /\ UNCHANGED <<alarmEnabled, relays, now>>
       ELSE /\ resp' = [op |-> "deactivate", status |-> 200, msg |-> "No active alarm to deactivate"]
            /\ UNCHANGED <<alarmEnabled, relays, activeTrigger, testRelay, currentRelayStates,
                           triggerActive, intervalId, timers, now, ev, connectedClients, diskOk>>
            /\ sockets' = NothingSent(sockets)

---------------------------------------------------------------------------
(* The WebSocket server *)

MaxHubTime == 100
MaxHubCommands == 1

\* everything but the clients
coreVars == <<alarmEnabled, relays, activeTrigger, testRelay, currentRelayStates,
              triggerActive, intervalId, timers, now, resp, cmds, ev, diskOk>>

\* the upgrade requests offered: the path and whether the request carries the
\* credential of that path (secret === ESP32_SECRET for /ws/esp32, a logged-in
\* session for /ws/dashboard)
UpgradeRequests ==
    {[path |-> "/ws/esp32", credential |-> TRUE],
     [path |-> "/ws/esp32", credential |-> FALSE],
     [path |-> "/ws/dashboard", credential |-> TRUE],
     [path |-> "/ws/dashboard", credential |-> FALSE],
     [path |-> "/other", credential |-> FALSE]}

\* httpServer.on('upgrade'): which requests reach wss.handleUpgrade
Admitted(request) ==
    \/ request.path = "/ws/esp32" /\ request.credential
    \/ request.path = "/ws/dashboard"

\* the dataToSend of the connection handler
CurrentState == Payload(alarmEnabled, triggerActive, currentRelayStates, testRelay)

\* variant: the connection is announced to every open client as well
WelcomeEveryone(socks, members, id, request, data) ==
    [BroadcastSettings(socks, members, data) EXCEPT
        ![id] = [readyState |-> "OPEN", alive |-> TRUE, path |-> request.path,
                 credential |-> request.credential, got |-> 1, last |-> data]]

\* wss.on('connection'): ws.send(dataToSend) on the new socket only
Welcome(socks, members, id, request, data) ==
    [NothingSent(socks) EXCEPT
        ![id] = [readyState |-> "OPEN", alive |-> TRUE, path |-> request.path,
                 credential |-> request.credential, got |-> 1, last |-> data]]

\* an upgrade request on a new socket (the ids name the sockets in their
\* order of arrival): admitted requests run the connection
\* handler, the others have their socket destroyed
Upgrade(id, request) ==
    /\ sockets[id].readyState = "NONE"
    /\ id = "b" => sockets["a"].readyState # "NONE"
    /\ IF Admitted(request)
       THEN /\ connectedClients' = connectedClients \cup {id}
            /\ sockets' = Welcome(sockets, connectedClients, id, request, CurrentState)
       ELSE /\ connectedClients' = connectedClients
            /\ sockets' = [NothingSent(sockets) EXCEPT
                              ![id] = [FreshSocket EXCEPT !.readyState = "REJECTED",
                                                          !.path = request.path,
                                                          !.credential = request.credential]]
    /\ UNCHANGED coreVars

\* the peer of an open socket goes away without a close frame or a reset
PeerDies(id) ==
    /\ sockets[id].readyState = "OPEN"
    /\ sockets[id].alive
    /\ sockets' = [sockets EXCEPT ![id].alive = FALSE]
    /\ UNCHANGED <<coreVars, connectedClients>>

\* the closing handshake starts: readyState leaves OPEN before 'close' fires
BeginClose(id) ==
    /\ sockets[id].readyState = "OPEN"
    /\ sockets' = [sockets EXCEPT ![id].readyState = "CLOSING"]
    /\ UNCHANGED <<coreVars, connectedClients>>

\* ws.on('error'): a failed write or a transport error; the handler deletes
\* the client and the socket goes on to close
ErrorEvent(id) ==
    /\ sockets[id].readyState \in {"OPEN", "CLOSING"}
    /\ connectedClients' = connectedClients \ {id}
    /\ sockets' = [NothingSent(sockets) EXCEPT ![id].readyState = "CLOSING"]
    /\ UNCHANGED coreVars

\* ws.on('close'): the handler deletes the client
CloseEvent(id) ==
    /\ sockets[id].readyState \in {"OPEN", "CLOSING"}
    /\ connectedClients' = connectedClients \ {id}
    /\ sockets' = [NothingSent(sockets) EXCEPT
                      ![id] = [FreshSocket EXCEPT !.readyState = "CLOSED"]]
    /\ UNCHANGED coreVars

\* the 30 s interval: ws.ping() on every client whose readyState is OPEN;
\* nothing is removed and no pong is awaited
Ping ==
    /\ connectedClients' = connectedClients
    /\ sockets' = NothingSent(sockets)
    /\ UNCHANGED coreVars

AdvanceHubTime ==
    /\ \E d \in Steps : now + d <= MaxHubTime
    /\ AdvanceTime

\* the commands issued while clients come and go
HubCommand ==
    /\ cmds < MaxHubCommands
    /\ \/ FireTrigger
       \/ FireTest(1)
       \/ Deactivate

Next ==
    \/ AdvanceTime
    \/ Tick
    \/ FireTrigger
    \/ \E req \in Requests : UpdateConfig(req)
    \/ \E relayId \in RelayIds : FireTest(relayId)
    \/ Deactivate

Spec == Init /\ [][Next]_vars

\* the interval fires as long as it is armed, and the clock does not stop
SpecLive == Spec /\ WF_vars(Tick) /\ WF_vars(AdvanceTime)

\* the same handlers, driven by the requests that probe the validation
NextProbe ==
    \/ AdvanceProbeTime
    \/ Tick
    \/ FireTrigger
    \/ \E req \in ProbeRequests \cup NullRequests : UpdateConfig(req)
    \/ \E relayId \in 1..5 : FireTest(relayId)
    \/ Deactivate

SpecProbe == Init /\ [][NextProbe]_vars

\* the settings file becomes unwritable, or writable again
DiskChanges ==
    /\ diskOk' = ~diskOk
    /\ UNCHANGED <<alarmEnabled, relays, activeTrigger, testRelay, currentRelayStates,
                   triggerActive, intervalId, timers, now, resp, cmds, ev,
                   connectedClients, sockets>>

NextDisk ==
    \/ AdvanceTime
    \/ Tick
    \/ FireTrigger
    \/ UpdateConfig([alarmEnabled |-> TRUE, relays |-> CfgMixed])
    \/ FireTest(1)
    \/ Deactivate
    \/ DiskChanges

\* the server with a settings file that may refuse writes
SpecDisk == Init /\ [][NextDisk]_vars

NextHub ==
    \/ AdvanceHubTime
    \/ Tick
    \/ HubCommand
    \/ \E id \in SocketIds, request \in UpgradeRequests : Upgrade(id, request)
    \/ \E id \in SocketIds : PeerDies(id)
    \/ \E id \in SocketIds : BeginClose(id)
    \/ \E id \in SocketIds : ErrorEvent(id)
    \/ \E id \in SocketIds : CloseEvent(id)
    \/ Ping

\* the server with its WebSocket clients
SpecHub == Init /\ [][NextHub]_vars

\* the ping interval keeps firing
SpecHubLive == SpecHub /\ WF_vars(Ping)

\* a settings update that switches the main toggle off while clients listen
HubUpdate ==
    /\ cmds < MaxHubCommands
    /\ UpdateConfig([alarmEnabled |-> FALSE, relays |-> CfgMixed])

NextHubSettings ==
    \/ NextHub
    \/ HubUpdate

\* the server with its WebSocket clients and the settings command
SpecHubSettings == Init /\ [][NextHubSettings]_vars

---------------------------------------------------------------------------
(* Properties of the evaluation.  ev describes the last run, so a state    *)
(* predicate over ev holds in every reachable state iff it holds of every  *)
(* run of the evaluation.                                                  *)

\* the trigger seen by the last run still has an enabled relay before its end
Unfinished(trig, n) ==
    \E r \in DOMAIN trig.relayConfig :
        /\ trig.relayConfig[r].enabled
        /\ n < trig.timestamp + trig.relayConfig[r].delayMs + trig.relayConfig[r].onTimeMs

\* relay r is the target of an override that is in flight in the last run
OverrideInFlightOn(r) ==
    ev.test.id = r /\ ev.n - ev.test.timestamp < 500

\* C1: with alarmEnabled true and an unfinished ActiveTrigger, an enabled relay
\* with pulseMs = 0 that is not the target of an in-flight override is on
\* iff delayMs <= now - startedAt < delayMs + onTimeMs (half-open window).
SolidWindow ==
    (ev.alarm /\ ev.trig # NoTrigger /\ Unfinished(ev.trig, ev.n)) =>
        \A r \in DOMAIN ev.trig.relayConfig :
            LET c == ev.trig.relayConfig[r]
                elapsed == ev.n - ev.trig.timestamp
            IN  (c.enabled /\ c.pulseMs = 0 /\ ~OverrideInFlightOn(r)) =>
                    (ev.computed[r] <=> (c.delayMs <= elapsed /\ elapsed < c.delayMs + c.onTimeMs))

\* a solid relay exactly at the end of its window, in an unfinished trigger, is off
SolidWindowWitness ==
    /\ ev.alarm /\ ev.trig # NoTrigger /\ Unfinished(ev.trig, ev.n)
    /\ \E r \in DOMAIN ev.trig.relayConfig :
            LET c == ev.trig.relayConfig[r] IN
            /\ c.enabled /\ c.pulseMs = 0 /\ ~OverrideInFlightOn(r)
            /\ ev.n - ev.trig.timestamp = c.delayMs + c.onTimeMs
            /\ ~ev.computed[r]

\* C2: with alarmEnabled true and an unfinished ActiveTrigger, an enabled relay
\* with pulseMs = p > 0 that is not the target of an in-flight override is,
\* inside its window, on iff ((now - startedAt - delayMs) mod 2p) < p, and off
\* outside its window.
PulseWindow ==
    (ev.alarm /\ ev.trig # NoTrigger /\ Unfinished(ev.trig, ev.n)) =>
        \A r \in DOMAIN ev.trig.relayConfig :
            LET c == ev.trig.relayConfig[r]
                elapsed == ev.n - ev.trig.timestamp
            IN  (c.enabled /\ c.pulseMs > 0 /\ ~OverrideInFlightOn(r)) =>
                    IF c.delayMs <= elapsed /\ elapsed < c.delayMs + c.onTimeMs
                    THEN ev.computed[r] <=> ((elapsed - c.delayMs) % (2 * c.pulseMs)) < c.pulseMs
                    ELSE ~ev.computed[r]

\* a pulsing relay inside its window, at the first instant of its off-phase
PulseWindowWitness ==
    /\ ev.alarm /\ ev.trig # NoTrigger /\ Unfinished(ev.trig, ev.n)
    /\ \E r \in DOMAIN ev.trig.relayConfig :
            LET c == ev.trig.relayConfig[r]
                elapsed == ev.n - ev.trig.timestamp
            IN  /\ c.enabled /\ c.pulseMs > 0 /\ ~OverrideInFlightOn(r)
                /\ c.delayMs <= elapsed /\ elapsed < c.delayMs + c.onTimeMs
                /\ (elapsed - c.delayMs) % (2 * c.pulseMs) = c.pulseMs
                /\ ~ev.computed[r]

\* C3: a relay disabled in the snapshot is off after the main-trigger
\* computation, whatever now, delayMs, onTimeMs and pulseMs are.
DisabledRelayOff ==
    ev.trig # NoTrigger =>
        \A r \in DOMAIN ev.trig.relayConfig :
            ~ev.trig.relayConfig[r].enabled => ~ev.main[r]

\* a disabled relay inside its own window while the trigger drives another relay
DisabledRelayOffWitness ==
    /\ ev.alarm /\ ev.trig # NoTrigger
    /\ \E r \in DOMAIN ev.trig.relayConfig :
            /\ ~ev.trig.relayConfig[r].enabled
            /\ ev.n - ev.trig.timestamp >= ev.trig.relayConfig[r].delayMs
            /\ ev.n - ev.trig.timestamp < ev.trig.relayConfig[r].delayMs + ev.trig.relayConfig[r].onTimeMs
            /\ ~ev.main[r]
    /\ \E q \in DOMAIN ev.main : ev.main[q]

\* C4: an evaluation clears the ActiveTrigger iff now >= startedAt + delayMs +
\* onTimeMs holds for every relay enabled in the snapshot.
TriggerLifetime ==
    ev.trig # NoTrigger =>
        ((activeTrigger = NoTrigger) <=> ~Unfinished(ev.trig, ev.n))

\* C5: an evaluation clears the TestOverride iff now - startedAt >= 500,
\* whether or not an ActiveTrigger exists and whatever alarmEnabled is.
OverrideLifetime ==
    ev.test.id # NoRelay =>
        ((testRelay.id = NoRelay) <=> (ev.n - ev.test.timestamp >= 500))

\* an override cleared at exactly 500 ms while a trigger is in flight
OverrideLifetimeWitness ==
    /\ ev.test.id # NoRelay
    /\ ev.n - ev.test.timestamp = 500
    /\ testRelay.id = NoRelay
    /\ ev.trig # NoTrigger

\* the rule of an override with pulse p at elapsed time e of its own window
OverrideRule(p, e) ==
    p = 0 \/ (e % (2 * p)) < p

\* C6 as stated: after FireTest(r) was accepted while an ActiveTrigger existed
\* whose main computation for r was off, every evaluation within 500 ms of the
\* override's start yields r on, and from the first evaluation at elapsed >= 500
\* r is what the main computation gives.
OverrideWinsAlwaysOn ==
    (ev.overMainOff /\ ev.test.id # NoRelay) =>
        IF ev.n - ev.test.timestamp < 500
        THEN ev.computed[ev.test.id]
        ELSE ev.computed[ev.test.id] = ev.main[ev.test.id]

\* C6 amended: within 500 ms of the override's start r follows the override's
\* own rule (on if its pulseMs is 0, else on iff (elapsedT mod 2*pulseMs) <
\* pulseMs), whatever the main computation gives; from the first evaluation at
\* elapsed >= 500 r is what the main computation gives.
OverrideWins ==
    (ev.overMainOff /\ ev.test.id # NoRelay) =>
        IF ev.n - ev.test.timestamp < 500
        THEN ev.computed[ev.test.id] <=> OverrideRule(ev.test.pulseMs, ev.n - ev.test.timestamp)
        ELSE ev.computed[ev.test.id] = ev.main[ev.test.id]

\* an override started over an off relay of a live trigger is in its off-phase
\* and keeps the relay off although the main computation now gives on
OverrideWinsWitness ==
    /\ ev.overMainOff /\ ev.test.id # NoRelay
    /\ ev.trig # NoTrigger /\ activeTrigger # NoTrigger
    /\ ev.n - ev.test.timestamp < 500
    /\ ev.test.pulseMs > 0
    /\ ev.main[ev.test.id]
    /\ ~ev.computed[ev.test.id]

\* C7: Deactivate while an ActiveTrigger and a TestOverride are both live
\* clears both, its evaluation yields every relay false and triggerActive
\* false, that snapshot is broadcast, and the timer is cancelled.
DeactivateClearsAll ==
    (ev.op = "deactivate" /\ ev.preTrig # NoTrigger /\ ev.preTest.id # NoRelay) =>
        /\ activeTrigger = NoTrigger
        /\ testRelay.id = NoRelay
        /\ \A r \in DOMAIN ev.computed : ~ev.computed[r]
        /\ ~ev.active
        /\ ev.broadcast
        /\ \A r \in DOMAIN currentRelayStates : ~currentRelayStates[r]
        /\ ~triggerActive
        /\ ~intervalId /\ timers = 0

\* Deactivate ran while both were live and a relay was on
DeactivateClearsAllWitness ==
    /\ ev.op = "deactivate" /\ ev.preTrig # NoTrigger /\ ev.preTest.id # NoRelay
    /\ \E r \in DOMAIN ev.prevStates : ev.prevStates[r]
    /\ activeTrigger = NoTrigger /\ testRelay.id = NoRelay

\* the step is an accepted or ignored order webhook
OrderStep ==
    cmds' = cmds + 1 /\ resp'.op = "order"

\* the step is an accepted settings update
SettingsStep ==
    cmds' = cmds + 1 /\ resp'.op = "settings" /\ resp'.status = 200

\* C8: once FireTrigger has created an ActiveTrigger, no step other than a
\* FireTrigger changes any field of it (it can only be cleared), and the
\* evaluation run by an UpdateConfig computes from the unchanged snapshot.
SnapshotImmutable ==
    [][(activeTrigger # NoTrigger /\ ~OrderStep) =>
            /\ activeTrigger' \in {activeTrigger, NoTrigger}
            /\ SettingsStep => ev'.trig = activeTrigger]_vars

\* a settings update went through while a trigger with another snapshot is live
SnapshotImmutableWitness ==
    /\ ev.op = "settings"
    /\ activeTrigger # NoTrigger
    /\ ev.preTrig = activeTrigger
    /\ activeTrigger.relayConfig # relays

\* the step is a tick at the instant of the run before it
RepeatRun ==
    now' = now /\ cmds' = cmds /\ ev'.repeat

\* C9 as stated: a second run at the same now with no command in between
\* yields the same pair, changes no state, and neither saves nor broadcasts.
IdempotentSilent ==
    [][RepeatRun =>
            /\ ev'.computed = ev.computed /\ ev'.active = ev.active
            /\ UNCHANGED <<alarmEnabled, relays, activeTrigger, testRelay,
                           currentRelayStates, triggerActive, intervalId, timers>>
            /\ ev'.saves = 0
            /\ ~ev'.broadcast]_vars

\* C9 amended: a second run at the same now with no command in between yields
\* the same pair, changes no state and does not save; it broadcasts (the same
\* snapshot again) iff a TestOverride is in flight.
Idempotent ==
    [][RepeatRun =>
            /\ ev'.computed = ev.computed /\ ev'.active = ev.active
            /\ UNCHANGED <<alarmEnabled, relays, activeTrigger, testRelay,
                           currentRelayStates, triggerActive, intervalId, timers>>
            /\ ev'.saves = 0
            /\ ev'.broadcast <=> testRelay.id # NoRelay]_vars

\* a repeated run without an override, while a trigger drives a relay
IdempotentWitness ==
    /\ ev.repeat
    /\ activeTrigger # NoTrigger /\ testRelay.id = NoRelay
    /\ \E r \in DOMAIN ev.computed : ev.computed[r]
    /\ ~ev.broadcast

\* C10: an evaluation broadcasts iff the computed pair differs from the stored
\* pair, or a TestOverride is in flight, or an ActiveTrigger or a TestOverride
\* finished during that evaluation.
BroadcastGateClaim ==
    ev.broadcast <=>
        \/ ev.computed # ev.prevStates
        \/ ev.active # ev.prevActive
        \/ (ev.test.id # NoRelay /\ ev.n - ev.test.timestamp < 500)
        \/ (ev.trig # NoTrigger /\ activeTrigger = NoTrigger)
        \/ (ev.test.id # NoRelay /\ testRelay.id = NoRelay)

---------------------------------------------------------------------------
(* Persistence inside the evaluation *)

\* the override seen by the last run had run its 500 ms
OverrideEnded ==
    ev.test.id # NoRelay /\ ev.n - ev.test.timestamp >= 500

---------------------------------------------------------------------------
(* The order webhook *)

\* C12: FireTrigger while alarmEnabled is false returns success and changes
\* nothing: no trigger is created, the existing trigger, override,
\* configuration, stored pair and timer stay as they are, and no evaluation
\* runs, so nothing is broadcast.
IgnoredOrderNoOp ==
    [][(OrderStep /\ ~alarmEnabled) =>
            /\ resp'.status = 200
            /\ UNCHANGED <<alarmEnabled, relays, activeTrigger, testRelay,
                           currentRelayStates, triggerActive, intervalId, timers, ev>>]_vars

\* an order was ignored while an earlier trigger was still stored
IgnoredOrderNoOpWitness ==
    /\ resp.op = "order" /\ resp.msg = "Main alarm is disabled, trigger ignored"
    /\ ~alarmEnabled
    /\ activeTrigger # NoTrigger
    /\ timers = 1

\* C13: FireTrigger while alarmEnabled is true hands the evaluation a new
\* trigger started now whose snapshot equals the live configuration, whatever
\* trigger was in flight; the main computation of that run is taken at elapsed
\* time 0 of the new trigger, and on return the new trigger is the stored one
\* (none is stored when no relay is enabled).
OrderInstallsTrigger ==
    [][(OrderStep /\ alarmEnabled) =>
            LET new == [source |-> "order", timestamp |-> now, relayConfig |-> relays]
                anyEnabled == \E r \in DOMAIN relays : relays[r].enabled
            IN  /\ ev'.op = "order" /\ ev'.n = now
                /\ ev'.trig = new
                /\ activeTrigger' = IF anyEnabled THEN new ELSE NoTrigger
                /\ anyEnabled =>
                       \A r \in DOMAIN relays :
                           ev'.main[r] <=> (relays[r].enabled /\ relays[r].delayMs = 0)]_vars

\* an order replaced a trigger that was started earlier and was still unfinished
OrderInstallsTriggerWitness ==
    /\ resp.op = "order" /\ ev.op = "order"
    /\ ev.preTrig # NoTrigger /\ Unfinished(ev.preTrig, ev.n)
    /\ ev.preTrig.timestamp < ev.n
    /\ activeTrigger = ev.trig /\ activeTrigger.timestamp = ev.n

---------------------------------------------------------------------------
(* Validation in the settings and test-relay handlers *)

\* what the handlers may not touch when they reject a request; ev unchanged
\* tells that no evaluation ran, so nothing was broadcast
Untouched ==
    UNCHANGED <<alarmEnabled, relays, activeTrigger, testRelay, currentRelayStates,
                triggerActive, intervalId, timers, ev>>

\* a step in which the settings handler answers a request
SettingsAnswer ==
    cmds' = cmds + 1 /\ resp'.op = "settings"

\* a step in which the test-relay handler answers a request
TestAnswer ==
    cmds' = cmds + 1 /\ resp'.op = "test"

\* C14: UpdateConfig answers with a validation error and changes nothing
\* whenever the key set of the relays argument is not exactly {1,2,3,4}, also
\* when it has four keys: a step of the handler is a rejection that changes
\* nothing, or it is the step of no request with another key set.
ShapeValidation ==
    [][SettingsAnswer =>
            \/ resp'.status = 400 /\ Untouched
            \/ \A req \in ProbeRequests :
                    DOMAIN req.relays # {1, 2, 3, 4} => ~UpdateConfig(req)]_vars

\* a relay of the request breaks one of the stated bounds
OutOfBounds(relay) ==
    \/ ~("onTimeMs" \in DOMAIN relay /\ relay.onTimeMs \in 100..600000)
    \/ ~("delayMs" \in DOMAIN relay /\ relay.delayMs \in 0..600000)
    \/ ~("pulseMs" \in DOMAIN relay /\ relay.pulseMs \in 0..5000)
    \/ ~("enabled" \in DOMAIN relay /\ relay.enabled \in BOOLEAN)

\* C15: UpdateConfig answers with a validation error whenever a relay of the
\* request has onTimeMs outside 100..600000, delayMs outside 0..600000,
\* pulseMs outside 0..5000 or no boolean enabled, or alarmEnabled is not a
\* boolean; the flag, the configuration, the trigger, the override and the
\* stored pair are then unchanged and no evaluation runs, however valid the
\* rest of the request is: a step of the handler is a rejection that changes
\* nothing, or it is the step of no request that breaks a bound.
BoundsValidation ==
    [][SettingsAnswer =>
            \/ resp'.status = 400 /\ Untouched
            \/ \A req \in ProbeRequests :
                    (\/ "alarmEnabled" \notin DOMAIN req
                     \/ \E id \in DOMAIN req.relays : OutOfBounds(req.relays[id]))
                        => ~UpdateConfig(req)]_vars

\* a request whose only fault is one pulseMs was rejected while a trigger was
\* in flight
BoundsValidationWitness ==
    /\ resp.op = "settings" /\ resp.status = 400 /\ resp.msg = "Invalid pulseMs"
    /\ activeTrigger # NoTrigger /\ triggerActive
    /\ relays = DefaultRelays

\* C16: FireTest(r) answers with a validation error and changes nothing when
\* relay r is disabled in the live configuration; otherwise it hands the
\* evaluation an override on r that lasts 500 ms, started now, with the live
\* pulseMs of r, in place of any earlier override, and leaves the trigger and
\* the configuration as they were.
TestRelayContract ==
    [][TestAnswer =>
            \A r \in RelayIds :
                FireTest(r) =>
                    IF r \in DOMAIN relays /\ ~relays[r].enabled
                    THEN resp'.status = 400 /\ Untouched
                    ELSE /\ r \in DOMAIN relays
                         /\ resp'.status = 200
                         /\ ev'.test = [id |-> r, onTimeMs |-> 500,
                                        pulseMs |-> relays[r].pulseMs, timestamp |-> now]
                         /\ testRelay' = ev'.test
                         /\ ev'.trig = activeTrigger
                         /\ relays' = relays]_vars

---------------------------------------------------------------------------
(* The deactivate handler and the evaluation forced by the commands *)

\* a step in which the deactivate handler answers a request
DeactivateAnswer ==
    cmds' = cmds + 1 /\ resp'.op = "deactivate"

\* C17: Deactivate invoked while neither an ActiveTrigger nor a TestOverride
\* exists returns success and changes nothing, and so does a Deactivate that
\* follows another Deactivate with no command in between: the second call
\* leaves the state the first one left.
DeactivateIdempotent ==
    [][(/\ DeactivateAnswer
        /\ \/ activeTrigger = NoTrigger /\ testRelay.id = NoRelay
           \/ resp.op = "deactivate") =>
            (resp'.status = 200 /\ Untouched)]_vars

\* a Deactivate that found nothing to clear, after one that cleared a trigger
\* in flight
DeactivateIdempotentWitness ==
    /\ resp.op = "deactivate" /\ resp.msg = "No active alarm to deactivate"
    /\ ev.op = "deactivate"
    /\ ev.preTrig # NoTrigger /\ ev.prevActive
    /\ timers = 0

\* a step in which a command is accepted and takes effect
AcceptedStep ==
    /\ cmds' = cmds + 1
    /\ resp'.msg \in {"Alarm triggered via API", "Settings updated",
                      "Test alarm command sent", "Active alarm cleared"}

---------------------------------------------------------------------------
(* The interval *)

\* C19: at most one interval is armed in every reachable state, and it is the
\* one whose handle is held.
SingleTimer ==
    /\ timers \in {0, 1}
    /\ intervalId <=> timers = 1

\* a new trigger arrived while the interval was running for an earlier one
SingleTimerWitness ==
    /\ ev.op = "order" /\ resp.op = "order"
    /\ ev.preTrig # NoTrigger
    /\ activeTrigger # NoTrigger
    /\ timers = 1

\* C20: after every evaluation the interval is armed iff an ActiveTrigger or a
\* TestOverride exists.
TimerMatchesWork ==
    (timers > 0) <=> (activeTrigger # NoTrigger \/ testRelay.id # NoRelay)

\* a tick found the trigger finished, cleared it and cancelled the interval
TimerMatchesWorkWitness ==
    /\ ev.op = "tick"
    /\ ev.trig # NoTrigger /\ activeTrigger = NoTrigger
    /\ testRelay.id = NoRelay
    /\ timers = 0 /\ ~intervalId

---------------------------------------------------------------------------
(* Quiescence *)

\* nothing is stored, driven or armed
Quiet ==
    /\ activeTrigger = NoTrigger /\ testRelay.id = NoRelay
    /\ \A r \in DOMAIN currentRelayStates : ~currentRelayStates[r]
    /\ ~triggerActive
    /\ timers = 0 /\ ~intervalId

\* the stored trigger and override reach their end before the clock of the
\* model stops
WorkEndsInTime ==
    /\ activeTrigger # NoTrigger => ~Unfinished(activeTrigger, MaxTime)
    /\ testRelay.id # NoRelay => testRelay.timestamp + testRelay.onTimeMs <= MaxTime

\* C21: once no further command is issued, with the clock advancing and the
\* interval firing while armed, eventually no trigger and no override are
\* stored, every relay is off, triggerActive is false and the interval is
\* cancelled.
Quiescence ==
    (cmds = MaxCommands /\ WorkEndsInTime) ~> Quiet

\* C22: an evaluation with alarmEnabled false that finds an ActiveTrigger
\* computes every main-trigger relay state false and clears the trigger.
DisabledAlarmFinishesTrigger ==
    (~ev.alarm /\ ev.trig # NoTrigger) =>
        /\ \A r \in DOMAIN ev.main : ~ev.main[r]
        /\ activeTrigger = NoTrigger

---------------------------------------------------------------------------
(* The override inside the evaluation *)

\* C29: while a TestOverride on relay r is in flight (0 <= elapsedT < 500)
\* the computed state of r is true if the override's pulseMs is 0 and
\* otherwise true iff (elapsedT mod 2*pulseMs) < pulseMs, whatever the main
\* computation gives for r.
OverrideStateRule ==
    (ev.test.id # NoRelay /\ ev.n - ev.test.timestamp \in 0..499) =>
        (ev.computed[ev.test.id] <=>
            OverrideRule(ev.test.pulseMs, ev.n - ev.test.timestamp))

\* a tick in the off-phase of a pulsed override, on a relay the trigger drives on
OverrideStateRuleWitness ==
    /\ ev.op = "tick"
    /\ ev.test.id # NoRelay /\ ev.test.pulseMs \in 1..499
    /\ ev.n - ev.test.timestamp \in 0..499
    /\ ev.main[ev.test.id]
    /\ ~ev.computed[ev.test.id]

\* C30: in every evaluation with a TestOverride on relay r the computed state
\* of every other relay is what the main computation alone gives, and the
\* ActiveTrigger after the run is what the main block alone decides: cleared
\* iff the alarm is enabled and the trigger has finished.
OverrideScope ==
    ev.test.id # NoRelay =>
        /\ \A r \in DOMAIN ev.computed \ {ev.test.id} : ev.computed[r] = ev.main[r]
        /\ activeTrigger =
               IF ev.alarm /\ ev.trig # NoTrigger /\ ~Unfinished(ev.trig, ev.n)
               THEN NoTrigger ELSE ev.trig

\* an override in flight changes its own relay while the trigger drives another
OverrideScopeWitness ==
    /\ ev.test.id # NoRelay /\ ev.n - ev.test.timestamp \in 0..499
    /\ ev.computed[ev.test.id] # ev.main[ev.test.id]
    /\ \E r \in DOMAIN ev.computed \ {ev.test.id} : ev.computed[r]
    /\ activeTrigger = ev.trig /\ activeTrigger # NoTrigger

---------------------------------------------------------------------------
(* The WebSocket clients of the broadcast *)

\* a client of the set that can no longer be written to
FailedMember(id) ==
    /\ id \in connectedClients
    /\ sockets[id].readyState # "OPEN" \/ ~sockets[id].alive

\* a client of the set whose socket is open and whose peer is there
Healthy(id) ==
    /\ id \in connectedClients
    /\ sockets[id].readyState = "OPEN"
    /\ sockets[id].alive

\* a step that ran the evaluation
EvaluationStep == Tick \/ AcceptedStep

CatchUpOnConnect ==
    [][\A id \in SocketIds :
          (id \notin connectedClients /\ id \in connectedClients') =>
              /\ sockets[id].last = NoPayload
              /\ sockets'[id].got = 1
              /\ sockets'[id].last = CurrentState
              /\ UNCHANGED coreVars
              /\ \A o \in SocketIds \ {id} :
                     /\ sockets'[o].got = 0
                     /\ sockets'[o].last = sockets[o].last
                     /\ (o \in connectedClients') <=> (o \in connectedClients)
      ]_vars

\* a second client connected while a trigger was running and got the running
\* state, the first client got nothing in that step
CatchUpOnConnectWitness ==
    /\ {"a", "b"} \subseteq connectedClients
    /\ sockets["b"].got = 1 /\ sockets["b"].last = CurrentState
    /\ sockets["a"].got = 0 /\ sockets["a"].last # NoPayload
    /\ triggerActive /\ \E r \in DOMAIN currentRelayStates : currentRelayStates[r]

\* C25: every client of the set presented its credential, and a socket whose
\* request carried none never received a payload.
AdmissionControl ==
    \A id \in SocketIds :
        /\ id \in connectedClients => sockets[id].credential
        /\ ~sockets[id].credential => sockets[id].last = NoPayload

\* C26: a client of the set whose peer died without a close or an error is
\* eventually removed from the set.
LivenessPruning ==
    \A id \in SocketIds :
        (id \in connectedClients /\ sockets[id].readyState = "OPEN" /\ ~sockets[id].alive)
            ~> (id \notin connectedClients)

---------------------------------------------------------------------------
(* A settings file that cannot be written *)

\* what the last evaluation left is what it computed: it passed the gate iff
\* the computed pair differs from the pair stored before or an override is
\* left, a run that passed the gate stored the computed pair, and the interval
\* exists iff a trigger or an override is left
EvaluationComplete ==
    /\ ev.broadcast <=> BroadcastGate(ev.computed, ev.active, testRelay,
                                      ev.prevStates, ev.prevActive)
    /\ ev.broadcast => (currentRelayStates = ev.computed /\ triggerActive = ev.active)
    /\ (timers > 0) <=> (activeTrigger # NoTrigger \/ testRelay.id # NoRelay)

---------------------------------------------------------------------------
(* Uncaught exceptions *)

\* C28: every command ends in success or in a validation error, never in an
\* uncaught exception, whatever the request and the state.
NoUncaughtException ==
    resp.status \in {200, 400}

---------------------------------------------------------------------------
(* The end of an override, and triggerActive while it runs *)

\* C31: the evaluation in which an override on relay r ends clears the
\* override and computes r as the main block computed it in that run: true if
\* the trigger drives r at that instant, false otherwise; the stored state of
\* r is that value.
OverrideFinishRule ==
    OverrideEnded =>
        /\ testRelay = ClearedTest
        /\ ev.computed[ev.test.id] = ev.main[ev.test.id]
        /\ currentRelayStates[ev.test.id] = ev.main[ev.test.id]

\* an override ended on a relay the trigger drives at that instant: it stays on
OverrideFinishRuleWitness ==
    /\ OverrideEnded
    /\ ev.main[ev.test.id]
    /\ currentRelayStates[ev.test.id]
    /\ testRelay = ClearedTest

\* the override the run saw was still inside its 500 ms
OverrideRunning ==
    ev.test.id # NoRelay /\ ev.n - ev.test.timestamp < 500

\* C32: an evaluation that sees an override in flight computes and stores
\* triggerActive = true, with or without a trigger, also when the trigger
\* ends in that run and when alarmEnabled is false.
OverrideKeepsActive ==
    OverrideRunning => (ev.active /\ triggerActive)

\* the override ran with the alarm disabled and no trigger left by the run
OverrideKeepsActiveWitness ==
    /\ OverrideRunning
    /\ ~ev.alarm
    /\ activeTrigger = NoTrigger
    /\ triggerActive

---------------------------------------------------------------------------
(* Configuration *)

\* C33: alarmEnabled and the live relay configuration change only in the step
\* of an accepted settings update; ticks and the evaluations forced by the
\* other commands leave both as they were.
TicksKeepConfiguration ==
    [][(alarmEnabled' # alarmEnabled \/ relays' # relays) => SettingsStep]_vars

\* a tick ran on a configuration that a settings update had written, with the
\* main toggle off, and left it there
TicksKeepConfigurationWitness ==
    /\ ev.op = "tick"
    /\ ~alarmEnabled
    /\ relays # DefaultRelays

\* C34: the live configuration has exactly the relay ids 1..4, and every
\* relay has onTimeMs in 100..600000, delayMs in 0..600000, pulseMs in 0..5000
\* and a boolean enabled.
ConfigurationInvariant ==
    /\ DOMAIN relays = {1, 2, 3, 4}
    /\ \A id \in DOMAIN relays : ~OutOfBounds(relays[id])

---------------------------------------------------------------------------
(* Relays that are disabled *)

\* C35: a relay whose enabled flag is false in the live configuration is off
\* in the stored relay states.
LiveDisabledOff ==
    \A r \in DOMAIN relays \cap DOMAIN currentRelayStates :
        ~relays[r].enabled => ~currentRelayStates[r]

\* C35 amended: a relay is on only if the snapshot of the trigger the last
\* evaluation saw has it enabled or an override on it is in flight; the
\* snapshot is the live configuration of the moment the order arrived and an
\* override is accepted only on a relay enabled in the live configuration of
\* that moment.  A later settings update does not switch the relay off.
SnapshotDisabledOff ==
    /\ \A r \in DOMAIN currentRelayStates :
           currentRelayStates[r] =>
               \/ ev.trig # NoTrigger /\ ev.trig.relayConfig[r].enabled
               \/ ev.test.id = r /\ OverrideRunning
    /\ (ev.op = "order" /\ ev.trig # NoTrigger) => ev.trig.relayConfig = relays
    /\ ev.op = "test" => relays[ev.test.id].enabled

\* a settings update disabled a relay that the trigger's snapshot keeps on
SnapshotDisabledOffWitness ==
    \E r \in RelayIds :
        /\ ev.op = "settings"
        /\ ~relays[r].enabled
        /\ activeTrigger # NoTrigger /\ activeTrigger.relayConfig[r].enabled
        /\ currentRelayStates[r]

---------------------------------------------------------------------------
(* The stored pair *)

\* C36: if a relay is true in the stored relay states then the stored
\* triggerActive is true, and the same holds of the pair the last evaluation
\* computed, which is the pair a broadcast carries.
RelayOnImpliesActive ==
    /\ (\E r \in DOMAIN currentRelayStates : currentRelayStates[r]) => triggerActive
    /\ (\E r \in DOMAIN ev.computed : ev.computed[r]) => ev.active

\* a tick found a relay driven by the trigger, with no override left
RelayOnImpliesActiveWitness ==
    /\ ev.op = "tick"
    /\ testRelay.id = NoRelay
    /\ \E r \in DOMAIN currentRelayStates : currentRelayStates[r]
    /\ triggerActive

---------------------------------------------------------------------------
(* What the clients hold *)

\* C37: the last payload received by a client that is in the set, open and
\* alive is the current alarmEnabled, triggerActive, relay states and
\* override descriptor.
NeverStale ==
    \A id \in SocketIds : Healthy(id) => sockets[id].last = CurrentState

---------------------------------------------------------------------------
(* The main toggle *)

\* C38: while alarmEnabled is false every relay of the stored relay states is
\* false.
MasterSwitch ==
    ~alarmEnabled => \A r \in DOMAIN currentRelayStates : ~currentRelayStates[r]

\* C38 amended: while alarmEnabled is false the trigger drives no relay: a
\* relay of the stored relay states is true only if it is the relay of an
\* override in flight, which the test command starts whatever the toggle.
MasterSwitchButTest ==
    ~alarmEnabled =>
        \A r \in DOMAIN currentRelayStates :
            currentRelayStates[r] => (ev.test.id = r /\ OverrideRunning)

\* the toggle was switched off while a trigger was stored, and a test started
\* afterwards drives its relay and no other
MasterSwitchButTestWitness ==
    /\ ~alarmEnabled
    /\ activeTrigger # NoTrigger
    /\ ev.op = "test"
    /\ currentRelayStates[ev.test.id]
    /\ \A r \in DOMAIN currentRelayStates : r # ev.test.id => ~currentRelayStates[r]

\* C39: a step from a stored pair with triggerActive false and every relay
\* off to a stored pair with triggerActive true or a relay on is the step of
\* an accepted order or of an accepted test command.
NoSpontaneousReactivation ==
    [][(/\ ~triggerActive
        /\ \A r \in DOMAIN currentRelayStates : ~currentRelayStates[r]
        /\ (triggerActive' \/ \E r \in DOMAIN currentRelayStates' : currentRelayStates'[r]))
            => (/\ cmds' = cmds + 1
                /\ resp'.msg \in {"Alarm triggered via API", "Test alarm command sent"})
      ]_vars

---------------------------------------------------------------------------
(* A trigger with nothing to drive *)

\* the order the last evaluation served snapshotted a configuration in which
\* every relay is disabled
EmptyOrder ==
    /\ ev.op = "order"
    /\ ev.trig # NoTrigger
    /\ \A r \in DOMAIN ev.trig.relayConfig : ~ev.trig.relayConfig[r].enabled

\* C40: an order accepted while every relay is disabled is cleared by the
\* evaluation of the same command; the main block switches no relay on, and
\* triggerActive and the interval are left as an override in flight alone
\* requires.
EmptyTrigger ==
    EmptyOrder =>
        /\ activeTrigger = NoTrigger
        /\ \A r \in DOMAIN ev.main : ~ev.main[r]
        /\ \A r \in DOMAIN currentRelayStates :
               currentRelayStates[r] => (ev.test.id = r /\ OverrideRunning)
        /\ triggerActive <=> OverrideRunning
        /\ (timers > 0) <=> (testRelay.id # NoRelay)

\* the order arrived with every relay disabled and nothing else in flight
EmptyTriggerWitness ==
    /\ EmptyOrder
    /\ activeTrigger = NoTrigger
    /\ ~triggerActive
    /\ timers = 0 /\ ~intervalId

=============================================================================
